---------------------------- MODULE Spec2Model ----------------------------
(***************************************************************************)
(* Offline licensing core of TPMB2: the license key generator, codec and   *)
(* validator (src/utils/licensing.py) and the bot registry                 *)
(* (src/utils/bots_registry.py).                                           *)
(*                                                                         *)
(* Program strings are sequences of one-character strings, so that         *)
(* slicing, upper-casing, splitting and padding are computed character by  *)
(* character.  Python's None is the value None below.                      *)
(***************************************************************************)
EXTENDS Integers, Sequences, FiniteSets, TLC

VARIABLES
    now,        \* datetime.utcnow(): [day |-> days since 1970-01-01, tick |-> instant of the day]
    key_file,   \* whether config/.key exists
    secret,     \* LicenseManager.secret of the manager in use
    gen,        \* the last generate_key call and the key it returned
    last,       \* the last parse_key / validate_key / set_license call and its outcome
    order,      \* registry['bots'] keys, in insertion order
    bots,       \* registry['bots']: tenant id -> record
    active_bot, \* registry['active_bot']
    file,       \* content of config/bots.json
    cfg_token,  \* Config().get_bot_token()
    disk,       \* what happens to the next write of config/bots.json
    other       \* the registry held by a second BotRegistry on the same file

vars == <<now, key_file, secret, gen, last, order, bots, active_bot, file, cfg_token, disk, other>>

-----------------------------------------------------------------------------
(* Bounds of the model *)

\* instants told apart within one UTC day; instant 0 is 00:00:00.000000
TicksPerDay == 2
\* the clock runs over the days BaseDay .. BaseDay + MaxDay
MaxDay == 3
\* days_valid is drawn from 1 .. MaxDaysValid
MaxDaysValid == 2

-----------------------------------------------------------------------------
(* Python values and string primitives *)

None == <<"None">>

Truthy(s) == s # None /\ s # <<>>

Lowers == <<"a","b","c","d","e","f","g","h","i","j","k","l","m",
            "n","o","p","q","r","s","t","u","v","w","x","y","z">>

Uppers == <<"A","B","C","D","E","F","G","H","I","J","K","L","M",
            "N","O","P","Q","R","S","T","U","V","W","X","Y","Z">>

Digits == <<"0","1","2","3","4","5","6","7","8","9">>

HexLower == Digits \o <<"a","b","c","d","e","f">>

Alphabet == Digits \o Uppers \o Lowers \o <<"-", ".", " ", ":">>

IndexIn(seq, c) == CHOOSE i \in 1..Len(seq) : seq[i] = c

IsIn(seq, c) == \E i \in 1..Len(seq) : seq[i] = c

Chars == {Alphabet[i] : i \in 1..Len(Alphabet)}

\* the position of each character in Alphabet
CharCode == [c \in Chars |-> IndexIn(Alphabet, c)]

\* str.upper() on one character
UpperOf == [c \in Chars |-> IF IsIn(Lowers, c) THEN Uppers[IndexIn(Lowers, c)] ELSE c]

UpperChar(c) == UpperOf[c]

\* str.upper()
StrUpper(s) == [i \in 1..Len(s) |-> UpperChar(s[i])]

\* s[a:b] with 0 <= a <= b, Python slice semantics (clipped to the length)
Slice(s, a, b) ==
    LET hi == IF b < Len(s) THEN b ELSE Len(s)
    IN  IF a >= hi THEN <<>> ELSE SubSeq(s, a + 1, hi)

\* str.replace(c, '')
RemoveChar(s, c) == SelectSeq(s, LAMBDA x : x # c)

\* str.strip(): leading and trailing blanks removed
RECURSIVE LStrip(_)
LStrip(s) == IF s # <<>> /\ Head(s) = " " THEN LStrip(Tail(s)) ELSE s

RECURSIVE RStrip(_)
RStrip(s) ==
    IF s # <<>> /\ s[Len(s)] = " " THEN RStrip(SubSeq(s, 1, Len(s) - 1)) ELSE s

Strip(s) == RStrip(LStrip(s))

\* str.startswith
StartsWith(s, p) == Len(s) >= Len(p) /\ SubSeq(s, 1, Len(p)) = p

\* str.split(sep): the segments between the occurrences of the character sep
RECURSIVE SplitAcc(_, _, _)
SplitAcc(s, sep, cur) ==
    IF s = <<>> THEN <<cur>>
    ELSE IF Head(s) = sep THEN <<cur>> \o SplitAcc(Tail(s), sep, <<>>)
    ELSE SplitAcc(Tail(s), sep, Append(cur, Head(s)))

Split(s, sep) == SplitAcc(s, sep, <<>>)

\* '-'.join(parts)
RECURSIVE JoinDash(_)
JoinDash(parts) ==
    IF Len(parts) = 0 THEN <<>>
    ELSE IF Len(parts) = 1 THEN parts[1]
    ELSE parts[1] \o <<"-">> \o JoinDash(Tail(parts))

\* two decimal digits, as %y, %m and %d render them
TwoDigits(n) == <<Digits[(n \div 10) + 1], Digits[(n % 10) + 1]>>

IsDigit(c) == c \in {"0","1","2","3","4","5","6","7","8","9"}

\* the digits come first in Alphabet
DigitVal(c) == CharCode[c] - 1

-----------------------------------------------------------------------------
(* The calendar behind datetime, timedelta, strftime and strptime *)

IsLeap(y) == (y % 4 = 0 /\ y % 100 # 0) \/ y % 400 = 0

DaysInMonth(y, m) ==
    IF m = 2 THEN (IF IsLeap(y) THEN 29 ELSE 28)
    ELSE IF m \in {4, 6, 9, 11} THEN 30 ELSE 31

\* the day number (days since 1970-01-01) of the proleptic Gregorian date y-m-d
DaysFromCivil(y, m, d) ==
    LET yy  == IF m <= 2 THEN y - 1 ELSE y
        era == yy \div 400
        yoe == yy - era * 400
        mp  == IF m > 2 THEN m - 3 ELSE m + 9
        doy == (153 * mp + 2) \div 5 + d - 1
        doe == yoe * 365 + yoe \div 4 - yoe \div 100 + doy
    IN  era * 146097 + doe - 719468

\* the date [y, m, d] of a day number
CivilFromDays(z) ==
    LET zz  == z + 719468
        era == zz \div 146097
        doe == zz - era * 146097
        yoe == (doe - doe \div 1460 + doe \div 36524 - doe \div 146096) \div 365
        doy == doe - (365 * yoe + yoe \div 4 - yoe \div 100)
        mp  == (5 * doy + 2) \div 153
        d   == doy - (153 * mp + 2) \div 5 + 1
        m   == IF mp < 10 THEN mp + 3 ELSE mp - 9
        y   == yoe + era * 400 + (IF m <= 2 THEN 1 ELSE 0)
    IN  [y |-> y, m |-> m, d |-> d]

\* the first day of the model's clock, 2025-01-01
BaseDay == DaysFromCivil(2025, 1, 1)

\* date.strftime('%y%m%d')
Strftime(day) ==
    LET c == CivilFromDays(day)
    IN  TwoDigits(c.y % 100) \o TwoDigits(c.m) \o TwoDigits(c.d)

\* the length matched at position p by strptime's pattern for %d,
\* 3[0-1]|[1-2]\d|0[1-9]|[1-9]| [1-9], or 0 when none matches
DayLen(s, p) ==
    IF p > Len(s) THEN 0
    ELSE IF p < Len(s)
            /\ \/ s[p] = "3" /\ s[p + 1] \in {"0", "1"}
               \/ s[p] \in {"1", "2"} /\ IsDigit(s[p + 1])
               \/ s[p] = "0" /\ IsDigit(s[p + 1]) /\ s[p + 1] # "0"
         THEN 2
    ELSE IF IsDigit(s[p]) /\ s[p] # "0" THEN 1
    ELSE IF p < Len(s) /\ s[p] = " " /\ IsDigit(s[p + 1]) /\ s[p + 1] # "0" THEN 2
    ELSE 0

\* whether strptime's pattern for %m, 1[0-2]|0[1-9]|[1-9], matches two
\* characters at position p
MonthTwo(s, p) ==
    /\ p < Len(s)
    /\ \/ s[p] = "1" /\ s[p + 1] \in {"0", "1", "2"}
       \/ s[p] = "0" /\ IsDigit(s[p + 1]) /\ s[p + 1] # "0"

MonthOne(s, p) == p <= Len(s) /\ IsDigit(s[p]) /\ s[p] # "0"

NumVal(s) == IF Len(s) = 1 THEN DigitVal(s[1])
             ELSE DigitVal(s[1]) * 10 + DigitVal(s[2])

\* datetime.strptime(s, '%y%m%d'): [ok |-> FALSE] when it raises, else the day
\* number of the parsed date (its time of day is 00:00:00)
Strptime(s) ==
    IF ~(Len(s) >= 2 /\ IsDigit(s[1]) /\ IsDigit(s[2])) THEN [ok |-> FALSE]
    ELSE
      LET mlen == IF MonthTwo(s, 3) /\ DayLen(s, 5) > 0 THEN 2
                  ELSE IF MonthOne(s, 3) /\ DayLen(s, 4) > 0 THEN 1
                  ELSE 0
          dlen == DayLen(s, 3 + mlen)
      IN  IF mlen = 0 \/ 2 + mlen + dlen # Len(s) THEN [ok |-> FALSE]
          ELSE
            LET yy == NumVal(SubSeq(s, 1, 2))
                y  == IF yy < 69 THEN 2000 + yy ELSE 1900 + yy
                m  == NumVal(SubSeq(s, 3, 2 + mlen))
                ds == SubSeq(s, 3 + mlen, 2 + mlen + dlen)
                d  == NumVal(IF ds[1] = " " THEN <<ds[2]>> ELSE ds)
            IN  IF d > DaysInMonth(y, m) THEN [ok |-> FALSE]
                ELSE [ok |-> TRUE, day |-> DaysFromCivil(y, m, d)]

-----------------------------------------------------------------------------
(* Digests.  SHA-256 is tabulated on the identities of the model (the real *)
(* leading 8 hex characters); HMAC-SHA256 truncated to 4 hex characters is *)
(* a keyed 16-bit digest of the payload's characters.                      *)

\* the identity strings (bot tokens) of the model
Identities == {"tok49", "abc123token", "wrongtoken"}

\* hashlib.sha256(identity.encode()).hexdigest()[:8]
Sha256Hex8(identity) ==
    CASE identity = "tok49"       -> <<"9","6","9","4","6","0","7","3">>
      [] identity = "abc123token" -> <<"e","e","7","f","d","b","d","5">>
      [] identity = "wrongtoken"  -> <<"6","5","3","f","2","e","1","2">>

\* the secrets a manager can hold: sha256 of config/.key, or of the fallback
Secrets == {"keyfile", "fallback"}

SecretSeed(sec) == IF sec = "keyfile" THEN 12289 ELSE 40503

RECURSIVE Mac16(_, _)
Mac16(acc, s) ==
    IF s = <<>> THEN acc
    ELSE Mac16((acc * 31 + CharCode[Head(s)]) % 65536, Tail(s))

\* hmac.new(secret, payload, sha256).hexdigest()[:4]
HmacHex4(sec, payload) ==
    LET n == Mac16(SecretSeed(sec), payload)
    IN  << HexLower[(n \div 4096) + 1], HexLower[((n \div 256) % 16) + 1],
           HexLower[((n \div 16) % 16) + 1], HexLower[(n % 16) + 1] >>

-----------------------------------------------------------------------------
(* LicenseManager *)

\* LicenseManager._get_default_secret, given whether config/.key exists
GetDefaultSecret(keyFileExists) == IF keyFileExists THEN "keyfile" ELSE "fallback"

\* LicenseManager._normalize_key: strip, upper, blanks removed ('-' kept)
NormalizeKey(key) == RemoveChar(StrUpper(Strip(key)), " ")

\* LicenseManager._checksum
Checksum(sec, payload) == StrUpper(HmacHex4(sec, payload))

GENERIC == <<"G","E","N","E","R","I","C">>

PREFIX == <<"T","P","M","B","-">>

\* (hwid or 'GENERIC')[:8].upper()
HwToken(hwid) == StrUpper(Slice(IF Truthy(hwid) THEN hwid ELSE GENERIC, 0, 8))

\* f"{token_hash}.{expiry}.{hw}"
Payload(token_hash, expiry, hw) == token_hash \o <<".">> \o expiry \o <<".">> \o hw

\* LicenseManager.generate_key, called on UTC day today
GenerateKey(sec, today, bot_token, days_valid, hwid) ==
    LET token_hash == Sha256Hex8(bot_token)
        expiry     == Strftime(today + days_valid)
        hw         == HwToken(hwid)
        csum       == Checksum(sec, Payload(token_hash, expiry, hw))
        ex         == expiry \o <<"0", "0">>
    IN  PREFIX \o JoinDash(<< Slice(token_hash, 0, 4), Slice(token_hash, 4, 8),
                              Slice(ex, 0, 4), Slice(ex, 4, 8),
                              Slice(hw, 0, 4), Slice(hw, 4, 8), csum >>)

\* parse_key keeping the two padding characters of the expiry groups
ParseKeyPadded(key) ==
    LET k     == NormalizeKey(key)
        parts == Split(k, "-")
    IN  IF ~StartsWith(k, PREFIX) THEN [ok |-> FALSE, error |-> "Invalid prefix"]
        ELSE IF Len(parts) # 8 THEN [ok |-> FALSE, error |-> "Invalid groups count"]
        ELSE [ ok         |-> TRUE,
               token_hash |-> StrUpper(parts[2] \o parts[3]),
               expiry     |-> parts[4] \o parts[5],
               hw         |-> StrUpper(parts[6] \o parts[7]),
               csum       |-> StrUpper(parts[8]) ]

\* LicenseManager.parse_key: [ok |-> FALSE, error] when it raises ValueError
ParseKey(key) ==
    LET k     == NormalizeKey(key)
        parts == Split(k, "-")
    IN  IF ~StartsWith(k, PREFIX) THEN [ok |-> FALSE, error |-> "Invalid prefix"]
        ELSE IF Len(parts) # 8 THEN [ok |-> FALSE, error |-> "Invalid groups count"]
        ELSE [ ok         |-> TRUE,
               token_hash |-> StrUpper(parts[2] \o parts[3]),
               expiry     |-> Slice(parts[4] \o parts[5], 0, 6),
               hw         |-> StrUpper(parts[6] \o parts[7]),
               csum       |-> StrUpper(parts[8]) ]

\* the value of a verdict's reason when it is Python's None
NoReason == "<None>"

\* validate_key taking the identity hash from the key instead of the bot token
MatchesHashFromKey(sec, data, bot_token, hwid) ==
    LET token_hash == data.token_hash
        expected   == Checksum(sec, Payload(token_hash, data.expiry, HwToken(hwid)))
    IN  data.csum = expected /\ token_hash = data.token_hash

\* validate_key taking the hardware token from the key instead of hwid
MatchesHwFromKey(sec, data, bot_token, hwid) ==
    LET token_hash == StrUpper(Sha256Hex8(bot_token))
        expected   == Checksum(sec, Payload(token_hash, data.expiry, data.hw))
    IN  data.csum = expected /\ token_hash = data.token_hash

\* line 83 of validate_key: the checksum and the identity hash both match
Matches(sec, data, bot_token, hwid) ==
    LET token_hash == StrUpper(Sha256Hex8(bot_token))
        expected   == Checksum(sec, Payload(token_hash, data.expiry, HwToken(hwid)))
    IN  data.csum = expected /\ token_hash = data.token_hash

\* datetime.utcnow() > exp, exp being 00:00:00 of day expDay
After(t, expDay) == t.day > expDay \/ (t.day = expDay /\ t.tick > 0)

\* LicenseManager.validate_key at instant t: [raised |-> TRUE, error] when the
\* ValueError of parse_key propagates, else the returned status
ValidateKey(sec, t, key, bot_token, hwid) ==
    LET data == ParseKey(key)
    IN  IF ~data.ok THEN [raised |-> TRUE, error |-> data.error]
        ELSE IF ~Matches(sec, data, bot_token, hwid)
             THEN [raised |-> FALSE, valid |-> FALSE,
                   reason |-> "checksum/token mismatch", expires |-> data.expiry]
        ELSE LET exp == Strptime(data.expiry)
             IN  IF ~exp.ok
                 THEN [raised |-> FALSE, valid |-> FALSE,
                       reason |-> "invalid expiry", expires |-> data.expiry]
                 ELSE IF After(t, exp.day)
                 THEN [raised |-> FALSE, valid |-> FALSE,
                       reason |-> "expired", expires |-> data.expiry]
                 ELSE [raised |-> FALSE, valid |-> TRUE,
                       reason |-> NoReason, expires |-> data.expiry]

-----------------------------------------------------------------------------
(* Inputs of the model *)

\* hardware ids passed as hwid, made of letters and digits as get_hwid returns
\* them: none, the literal GENERIC, two ids differing only in letter case, two
\* ids differing only after their 8th character
HwIds == { None, GENERIC,
           <<"a","b","1","2">>, <<"A","B","1","2">>,
           <<"a","b","c","d","e","f","g","h","i","j">>, <<"a","b","c","d","e","f","g","h","x","x">> }

\* key strings typed by hand rather than generated
TypedKeys == {
    <<"j","u","n","k">>,
    <<"T","P","M","B","-","1","1","1","1","-","2","2","2","2">>,
    <<"X","P","M","B","-","1","1","1","1","-","2","2","2","2","-","3","3","3","3","-","4","4","4","4","-","5","5","5","5","-","6","6","6","6","-","7","7","7","7">>,
    <<"T","P","M","B","-","1","1","1","1","-","2","2","2","2","-","3","3","3","3","-","4","4","4","4","-","5","5","5","5","-","6","6","6","6","-","7","7","7","7","-","8","8","8","8">>,
    <<"T","P","M","B","-","1","1","1","1","-","2","2","2","2","-","3","3","3","3","-","4","4","4","4","-","5","5","5","5","-","6","6","6","6","-","7","7","7">>,
    <<"T","P","M","B","-","1","1","1","1","-","2","2","2","2","2","-","3","3","3","3","-","4","4","4","4","-","5","5","5","5","-","6","6","6","6","-","7","7","7","7">>,
    <<"T","P","M","B","-","1","1","1","1","-","2","2","2","2","-","3","3","3","3","-","4","4","4","4","-","5","5","5","5","-","6","6","6","6","-","7","7","7","7">>,
    <<" ","t","p","m","b","-","9","6","9","4","-","6","0","7","3","-","2","5","0","1","-","0","2","0","0","-","g","e","n","e","-","r","i","c","-","0","0","0","0"," ">> }

\* the characters a tampering writes over a character of a key
TamperChars == {"7", "Z"}

\* the positions of the characters of the 7 data groups of key
DataPositions(key) ==
    {i \in (Len(PREFIX) + 1)..Len(key) : key[i] # "-"}

\* key with the character at position i replaced by c
Tampered(key, i, c) == [key EXCEPT ![i] = c]

\* registry['active_bot'] when it is Python's None
NoBot == "<None>"

NoGen == [made |-> FALSE]

\* no call is in progress: the caller has taken the last call's outcome
NoCall == [op |-> "none"]

\* the process was stopped in the middle of a call
Stopped == [op |-> "stopped"]

\* the caller takes the outcome of the call just made
Return ==
    /\ last # NoCall
    /\ last # Stopped
    /\ last' = NoCall
    /\ UNCHANGED <<now, key_file, secret, gen, order, bots, active_bot, file, cfg_token, disk, other>>

-----------------------------------------------------------------------------
(* The licensing state machine: the clock, generate_key, parse_key and     *)
(* validate_key of one LicenseManager                                      *)

\* time passes: the next instant of the day, or 00:00:00 of the next day
Tick ==
    /\ last = NoCall
    /\ \/ /\ now.tick < TicksPerDay - 1
          /\ now' = [now EXCEPT !.tick = now.tick + 1]
       \/ /\ now.tick = TicksPerDay - 1
          /\ now.day < BaseDay + MaxDay
          /\ now' = [day |-> now.day + 1, tick |-> 0]
    /\ UNCHANGED <<key_file, secret, gen, last, order, bots, active_bot, file, cfg_token, disk, other>>

\* lm.generate_key(bot_token=identity, days_valid=days, hwid=hwid)
Generate(identity, days, hwid) ==
    /\ last = NoCall
    /\ gen' = [ made |-> TRUE, bot_token |-> identity, days_valid |-> days,
                hwid |-> hwid, day |-> now.day, secret |-> secret,
                key |-> GenerateKey(secret, now.day, identity, days, hwid) ]
    /\ UNCHANGED <<now, key_file, secret, last, order, bots, active_bot, file, cfg_token, disk, other>>

\* lm.validate_key(key, bot_token=identity, hwid=hwid); tamper is the position
\* at which key differs from the generated key (0: nowhere, -1: a typed key)
Validate(key, identity, hwid, tamper) ==
    /\ last = NoCall
    /\ last' = [ op |-> "validate_key", key |-> key, bot_token |-> identity,
                 hwid |-> hwid, at |-> now, tamper |-> tamper, before |-> NoBot,
                 result |-> ValidateKey(secret, now, key, identity, hwid) ]
    /\ UNCHANGED <<now, key_file, secret, gen, order, bots, active_bot, file, cfg_token, disk, other>>

\* the generated key is validated against any identity and hardware id
ValidateGenerated ==
    /\ gen.made
    /\ \E identity \in Identities, hwid \in HwIds :
          Validate(gen.key, identity, hwid, 0)

\* the generated key with one character of a data group changed is validated
\* against the identity and hardware id it was generated for
ValidateTampered ==
    /\ gen.made
    /\ \E i \in DataPositions(gen.key), c \in TamperChars :
          /\ c # gen.key[i]
          /\ Validate(Tampered(gen.key, i, c), gen.bot_token, gen.hwid, i)

\* a typed key is validated
ValidateTyped ==
    \E key \in TypedKeys : Validate(key, "tok49", None, -1)

\* Config(): _ensure_encryption_key creates config/.key when it is missing
ConfigInit ==
    /\ last = NoCall
    /\ ~key_file
    /\ key_file' = TRUE
    /\ UNCHANGED <<now, secret, gen, last, order, bots, active_bot, file, cfg_token, disk, other>>

\* LicenseManager(): a new instance derives its secret and takes the place of
\* the one in use
NewManager ==
    /\ last = NoCall
    /\ secret' = GetDefaultSecret(key_file)
    /\ secret' # secret
    /\ UNCHANGED <<now, key_file, gen, last, order, bots, active_bot, file, cfg_token, disk, other>>

\* validity periods that end in 2025, on the last day of 2068 and on the first
\* of 2069 when counted from BaseDay
FarDays == {30, 16070, 16071}

\* the two expiry groups of a key that carries a correct checksum: dates to
\* come and past, a 13th month, a 30th of February, letters, a year 69, and
\* an empty second group
ExpiryGroups ==
    { << <<"2","5","0","1">>, <<"0","2","0","0">> >>,
      << <<"2","4","1","2">>, <<"3","1","0","0">> >>,
      << <<"2","5","1","3">>, <<"0","1","0","0">> >>,
      << <<"2","5","0","2">>, <<"3","0","0","0">> >>,
      << <<"2","5","A","B">>, <<"0","1","0","0">> >>,
      << <<"6","9","0","1">>, <<"0","1","0","0">> >>,
      << <<"2","5","1","3">>, <<>> >> }

\* a key string with the expiry groups g and the checksum validate_key expects
\* for bot_token and hwid under the secret sec
SignedKey(sec, bot_token, g, hwid) ==
    LET token_hash == StrUpper(Sha256Hex8(bot_token))
        hw         == HwToken(hwid)
        csum       == Checksum(sec, Payload(token_hash, Slice(g[1] \o g[2], 0, 6), hw))
    IN  PREFIX \o JoinDash(<< Slice(token_hash, 0, 4), Slice(token_hash, 4, 8),
                              g[1], g[2], Slice(hw, 0, 4), Slice(hw, 4, 8), csum >>)

\* a key with a correct checksum for one identity is validated against that
\* identity or another one
ValidateSigned ==
    \E g \in ExpiryGroups, identity \in {"tok49", "wrongtoken"} :
        Validate(SignedKey(secret, "tok49", g, None), identity, None, -1)

\* lm.parse_key(key) on a typed key or on the generated key
Parse ==
    /\ last = NoCall
    /\ \E key \in TypedKeys \cup (IF gen.made THEN {gen.key} ELSE {}) :
          last' = [ op |-> "parse_key", key |-> key, bot_token |-> "",
                    hwid |-> None, at |-> now, tamper |-> -1, before |-> NoBot,
                    result |-> ParseKey(key) ]
    /\ UNCHANGED <<now, key_file, secret, gen, order, bots, active_bot, file, cfg_token, disk, other>>

-----------------------------------------------------------------------------
(* BotRegistry *)

\* tenant ids passed to the registry; the empty string is a falsy id
BotIds == {"", "a", "b"}

\* Config().get_bot_token() when it is Python's None
NoToken == "<None>"

\* LicenseManager.get_hwid() of this machine
MachineHwid == <<"0","A","1","B","2","C","3","D">>

\* BotRegistry._default_bot
DefaultBot(name) ==
    [ name              |-> name,
      token_encrypted   |-> "",
      license_key       |-> None,
      license_status    |-> "inactive",
      created_date      |-> "now",
      proxy_config      |-> "default",
      groups            |-> "default",
      message_templates |-> "default",
      settings          |-> "default" ]

\* Python truthiness of registry.get('active_bot')
ActiveSet(a) == a # NoBot /\ a # ""

InSeq(seq, x) == \E i \in 1..Len(seq) : seq[i] = x

\* del registry['bots'][bot_id]: the remaining keys keep their order
Without(seq, x) == SelectSeq(seq, LAMBDA y : y # x)

\* the registry as json.dump writes it
Registry(o, b, a) == [active_bot |-> a, order |-> o, bots |-> b]

\* the content of a file that open(..., 'w') has truncated and json.dump has
\* not, or not completely, written
Partial == [partial |-> TRUE]

\* a second BotRegistry that has not been constructed
NoInstance == [open |-> FALSE]

\* a save that keeps the tenants the file holds and the instance does not
SaveMerged(o, b, a) ==
    file' = IF file = Partial THEN Registry(o, b, a)
            ELSE Registry(o \o SelectSeq(file.order, LAMBDA i : ~InSeq(o, i)),
                          [i \in DOMAIN b \cup DOMAIN file.bots |->
                              IF i \in DOMAIN b THEN b[i] ELSE file.bots[i]],
                          a)

\* BotRegistry._save: the file is rewritten in place; an exception of open() or
\* of json.dump is caught and printed
Save(o, b, a) ==
    file' = CASE disk = "ok"     -> Registry(o, b, a)
              [] disk = "denied" -> file
              [] disk = "full"   -> Partial

\* rec[field] = value on a dict
SetField(rec, field, value) ==
    [f \in DOMAIN rec \cup {field} |-> IF f = field THEN value ELSE rec[f]]

\* the bot token of a tenant as add_bot receives it, encrypted
Encrypt(identity) ==
    CASE identity = "tok49"       -> "enc(tok49)"
      [] identity = "abc123token" -> "enc(abc123token)"
      [] identity = "wrongtoken"  -> "enc(wrongtoken)"

Decrypt(token_encrypted) ==
    CASE token_encrypted = "enc(tok49)"       -> "tok49"
      [] token_encrypted = "enc(abc123token)" -> "abc123token"
      [] token_encrypted = "enc(wrongtoken)"  -> "wrongtoken"

\* f"invalid: {status.get('reason')}"
InvalidStatus(reason) ==
    CASE reason = "checksum/token mismatch" -> "invalid: checksum/token mismatch"
      [] reason = "expired"                 -> "invalid: expired"
      [] reason = "invalid expiry"          -> "invalid: invalid expiry"

\* a registry call on tenant id and its outcome; before is the active pointer
\* the call found
RegCall(op, id, result) ==
    [ op |-> op, key |-> <<>>, bot_token |-> id, hwid |-> None, at |-> now,
      tamper |-> -1, before |-> active_bot, result |-> result ]

\* registry.set_active_bot(bot_id)
SetActiveBot(bot_id) ==
    /\ last = NoCall
    /\ IF InSeq(order, bot_id)
       THEN /\ active_bot' = bot_id
            /\ Save(order, bots, bot_id)
            /\ last' = RegCall("set_active_bot", bot_id, [raised |-> FALSE, ok |-> TRUE])
       ELSE /\ UNCHANGED <<active_bot, file>>
            /\ last' = RegCall("set_active_bot", bot_id, [raised |-> FALSE, ok |-> FALSE])
    /\ UNCHANGED <<now, key_file, secret, gen, order, bots, cfg_token, disk, other>>

\* add_bot leaving the active pointer as it was
ActiveNotPromoted(a, bot_id) == a

\* the active pointer after bot_id has been added
ActiveAfterAdd(a, bot_id) == IF ~ActiveSet(a) THEN bot_id ELSE a

\* registry.add_bot(bot_id, name, token_encrypted)
AddBot(bot_id, name, token_encrypted) ==
    /\ last = NoCall
    /\ IF InSeq(order, bot_id)
       THEN /\ UNCHANGED <<order, bots, active_bot, file>>
            /\ last' = RegCall("add_bot", bot_id, [raised |-> FALSE, ok |-> FALSE])
       ELSE LET o == Append(order, bot_id)
                r == IF token_encrypted # ""
                     THEN SetField(DefaultBot(name), "token_encrypted", token_encrypted)
                     ELSE DefaultBot(name)
                b == [i \in DOMAIN bots \cup {bot_id} |->
                         IF i = bot_id THEN r ELSE bots[i]]
                a == ActiveAfterAdd(active_bot, bot_id)
            IN  /\ order' = o
                /\ bots' = b
                /\ active_bot' = a
                /\ Save(o, b, a)
                /\ last' = RegCall("add_bot", bot_id, [raised |-> FALSE, ok |-> TRUE])
    /\ UNCHANGED <<now, key_file, secret, gen, cfg_token, disk, other>>

\* remove_bot leaving the active pointer as it was
ActiveKept(a, bot_id, remaining) == a

\* the active pointer after bot_id has been deleted, remaining being the keys left
\* remove_bot of the active tenant clearing the active pointer
ActiveCleared(a, bot_id, remaining) == IF a = bot_id THEN NoBot ELSE a

\* remove_bot promoting the last remaining tenant
ActiveLastRemaining(a, bot_id, remaining) ==
    IF a = bot_id
    THEN (IF remaining # <<>> THEN remaining[Len(remaining)] ELSE NoBot)
    ELSE a

ActiveAfterRemove(a, bot_id, remaining) ==
    IF a = bot_id
    THEN (IF remaining # <<>> THEN remaining[1] ELSE NoBot)
    ELSE a

\* registry.remove_bot(bot_id)
RemoveBot(bot_id) ==
    /\ last = NoCall
    /\ IF InSeq(order, bot_id)
       THEN LET o == Without(order, bot_id)
                b == [i \in DOMAIN bots \ {bot_id} |-> bots[i]]
                a == ActiveAfterRemove(active_bot, bot_id, o)
            IN  /\ order' = o
                /\ bots' = b
                /\ active_bot' = a
                /\ Save(o, b, a)
                /\ last' = RegCall("remove_bot", bot_id, [raised |-> FALSE, ok |-> TRUE])
       ELSE /\ UNCHANGED <<order, bots, active_bot, file>>
            /\ last' = RegCall("remove_bot", bot_id, [raised |-> FALSE, ok |-> FALSE])
    /\ UNCHANGED <<now, key_file, secret, gen, cfg_token, disk, other>>

\* Config().get_bot_token(): Config() creates config/.key when it is missing,
\* and a token encrypted under an earlier key then fails to decrypt
ConfigToken == IF key_file THEN cfg_token ELSE NoToken

\* a setter that answers False for an id it does not know, yet leaves an empty
\* record under that id
RefusedCreated(op, bot_id) ==
    /\ last' = RegCall(op, bot_id, [raised |-> FALSE, ok |-> FALSE])
    /\ LET b == [i \in DOMAIN bots \cup {bot_id} |->
                    IF i \in DOMAIN bots THEN bots[i] ELSE [name |-> ""]]
           o == IF InSeq(order, bot_id) THEN order ELSE Append(order, bot_id)
       IN  order' = o /\ bots' = b /\ Save(o, b, active_bot)

\* a setter returning False for an id it does not know
Refused(op, bot_id) ==
    /\ last' = RegCall(op, bot_id, [raised |-> FALSE, ok |-> FALSE])
    /\ UNCHANGED <<order, bots, file>>

\* the fields update_bot is called with: by set_bot_groups, and the settings
UpdateFields == {"groups", "settings"}

\* update_bot writing the field into the record of every tenant
UpdateBotAll(bot_id, field, value) ==
    /\ last = NoCall
    /\ IF ~InSeq(order, bot_id)
       THEN Refused("update_bot", bot_id)
       ELSE LET b == [i \in DOMAIN bots |-> SetField(bots[i], field, value)]
            IN  /\ bots' = b
                /\ Save(order, b, active_bot)
                /\ last' = RegCall("update_bot", bot_id, [raised |-> FALSE, ok |-> TRUE])
                /\ UNCHANGED order
    /\ UNCHANGED <<now, key_file, secret, gen, active_bot, cfg_token, disk, other>>

\* registry.update_bot(bot_id, field=value)
UpdateBot(bot_id, field, value) ==
    /\ last = NoCall
    /\ IF ~InSeq(order, bot_id)
       THEN Refused("update_bot", bot_id)
       ELSE LET b == [bots EXCEPT ![bot_id] = SetField(bots[bot_id], field, value)]
            IN  /\ bots' = b
                /\ Save(order, b, active_bot)
                /\ last' = RegCall("update_bot", bot_id, [raised |-> FALSE, ok |-> TRUE])
                /\ UNCHANGED order
    /\ UNCHANGED <<now, key_file, secret, gen, active_bot, cfg_token, disk, other>>

\* the proxy_config dict built from the arguments
ProxyConfig(password) == IF Truthy(password) THEN "custom+password" ELSE "custom"

\* registry.set_bot_proxy_config(bot_id, True, password=password); a password is
\* encrypted with the cipher of Config(), which creates config/.key
SetBotProxyConfig(bot_id, password) ==
    /\ last = NoCall
    /\ IF ~InSeq(order, bot_id) \/ DOMAIN bots[bot_id] = {}
       THEN /\ Refused("set_bot_proxy_config", bot_id)
            /\ UNCHANGED key_file
       ELSE LET b == [bots EXCEPT ![bot_id] =
                        SetField(bots[bot_id], "proxy_config", ProxyConfig(password))]
            IN  /\ key_file' = (key_file \/ Truthy(password))
                /\ bots' = b
                /\ Save(order, b, active_bot)
                /\ last' = RegCall("set_bot_proxy_config", bot_id,
                                   [raised |-> FALSE, ok |-> TRUE])
                /\ UNCHANGED order
    /\ UNCHANGED <<now, secret, gen, active_bot, cfg_token, disk, other>>

\* the fields _migrate_bots backfills
MigratedFields == {"proxy_config", "created_date", "message_templates", "settings"}

\* one record after the four tests of _migrate_bots
Backfilled(rec) ==
    [f \in DOMAIN rec \cup MigratedFields |->
        IF f \in DOMAIN rec THEN rec[f] ELSE DefaultBot("")[f]]

\* BotRegistry._migrate_bots on the loaded records
Migrate(b) == [i \in DOMAIN b |-> Backfilled(b[i])]

\* BotRegistry(): _load reads config/bots.json, falls back to the default
\* registry when json.load fails, migrates and saves when a record was
\* migrated; then LicenseManager() derives its secret
Load ==
    /\ last = NoCall \/ last = Stopped
    /\ IF file = Partial
       THEN /\ order' = <<>>
            /\ bots' = <<>>
            /\ active_bot' = NoBot
            /\ UNCHANGED file
            /\ last' = RegCall("load", "", [raised |-> FALSE, ok |-> FALSE, from |-> file])
       ELSE LET b == Migrate(file.bots)
            IN  /\ order' = file.order
                /\ bots' = b
                /\ active_bot' = file.active_bot
                /\ IF b # file.bots
                   THEN Save(file.order, b, file.active_bot)
                   ELSE UNCHANGED file
                /\ last' = RegCall("load", "", [raised |-> FALSE, ok |-> TRUE, from |-> file])
    /\ secret' = GetDefaultSecret(key_file)
    /\ UNCHANGED <<now, key_file, gen, cfg_token, disk, other>>

\* what a write of config/bots.json meets: it succeeds, open() is refused, or
\* the device is full after open() has truncated the file
DiskStates == {"ok", "denied", "full"}

\* the file system changes under the program
DiskTurns(d) ==
    /\ last = NoCall
    /\ d # disk
    /\ disk' = d
    /\ UNCHANGED <<now, key_file, secret, gen, last, order, bots, active_bot, file, cfg_token, other>>

\* add_bot of a new id whose process is stopped inside _save: before open(),
\* between open() and the end of json.dump, or after it
AddBotStopped(bot_id) ==
    /\ last = NoCall
    /\ disk = "ok"
    /\ ~InSeq(order, bot_id)
    /\ LET o == Append(order, bot_id)
           b == [i \in DOMAIN bots \cup {bot_id} |->
                    IF i = bot_id THEN DefaultBot("n") ELSE bots[i]]
           a == ActiveAfterAdd(active_bot, bot_id)
       IN  /\ order' = o
           /\ bots' = b
           /\ active_bot' = a
           /\ file' \in {file, Partial, Registry(o, b, a)}
    /\ last' = Stopped
    /\ UNCHANGED <<now, key_file, secret, gen, cfg_token, disk, other>>

\* the registry _load takes from the content f of config/bots.json
Loaded(f) ==
    IF f = Partial THEN Registry(<<>>, <<>>, NoBot)
    ELSE Registry(f.order, Migrate(f.bots), f.active_bot)

\* BotRegistry() a second time on the same file: it reads its own copy
OtherOpen ==
    /\ last = NoCall
    /\ other' = Loaded(file)
    /\ other' # other
    /\ IF file # Partial /\ Migrate(file.bots) # file.bots
       THEN Save(file.order, Migrate(file.bots), file.active_bot)
       ELSE UNCHANGED file
    /\ UNCHANGED <<now, key_file, secret, gen, last, order, bots, active_bot, cfg_token, disk>>

\* add_bot(bot_id, "n") through the second instance
OtherAddBot(bot_id) ==
    /\ last = NoCall
    /\ other # NoInstance
    /\ IF InSeq(other.order, bot_id)
       THEN /\ UNCHANGED <<other, file>>
            /\ last' = [ RegCall("other.add_bot", bot_id, [raised |-> FALSE, ok |-> FALSE])
                         EXCEPT !.before = other.active_bot ]
       ELSE LET o == Append(other.order, bot_id)
                b == [i \in DOMAIN other.bots \cup {bot_id} |->
                         IF i = bot_id THEN DefaultBot("n") ELSE other.bots[i]]
                a == ActiveAfterAdd(other.active_bot, bot_id)
            IN  /\ other' = Registry(o, b, a)
                /\ Save(o, b, a)
                /\ last' = [ RegCall("other.add_bot", bot_id, [raised |-> FALSE, ok |-> TRUE])
                             EXCEPT !.before = other.active_bot ]
    /\ UNCHANGED <<now, key_file, secret, gen, order, bots, active_bot, cfg_token, disk>>

\* a refused set_license that nevertheless records the key on the tenant
AttachRefusedRecorded(bot_id, license_key, reason) ==
    /\ last' = [ RegCall("set_license", bot_id,
                    [raised |-> FALSE, ok |-> FALSE, reason |-> reason])
                  EXCEPT !.key = license_key ]
    /\ IF InSeq(order, bot_id)
       THEN LET b == [bots EXCEPT ![bot_id] =
                        SetField(bots[bot_id], "license_key", license_key)]
            IN  bots' = b /\ Save(order, b, active_bot)
       ELSE UNCHANGED <<bots, file>>

\* set_license returning {"ok": False, "reason": reason} before anything is
\* stored
AttachRefused(bot_id, license_key, reason) ==
    /\ last' = [ RegCall("set_license", bot_id,
                    [raised |-> FALSE, ok |-> FALSE, reason |-> reason])
                  EXCEPT !.key = license_key ]
    /\ UNCHANGED <<bots, file>>

\* a status string that falls back to "inactive" for a key that did not validate
StatusInactiveWhenInvalid(status) ==
    IF status.valid THEN "active" ELSE "inactive"

\* the status string of a verdict
StatusOf(status) ==
    IF status.valid THEN "active" ELSE InvalidStatus(status.reason)

\* a tenant record that takes the key only when it validated
AttachedWhenValid(rec, license_key, status) ==
    IF status.valid
    THEN SetField(SetField(rec, "license_key", license_key), "license_status", "active")
    ELSE rec

\* the tenant record after set_license has the verdict
Attached(rec, license_key, status) ==
    SetField(SetField(rec, "license_key", license_key),
             "license_status", StatusOf(status))

\* the validator's identity argument in set_license: the global token
AttachIdentity(rec, token) == token

\* registry.set_license(bot_id, license_key)
SetLicense(bot_id, license_key) ==
    /\ last = NoCall
    /\ IF ~InSeq(order, bot_id)
       THEN /\ AttachRefused(bot_id, license_key, "bot not found")
            /\ UNCHANGED key_file
       ELSE
         /\ key_file' = TRUE
         /\ IF ConfigToken = NoToken \/ ConfigToken = ""
            THEN AttachRefused(bot_id, license_key, "no bot token configured")
            ELSE
              LET status == ValidateKey(secret, now, license_key,
                                        AttachIdentity(bots[bot_id], ConfigToken),
                                        MachineHwid)
              IN  IF status.raised
                  THEN /\ last' = [ RegCall("set_license", bot_id, status)
                                    EXCEPT !.key = license_key ]
                       /\ UNCHANGED <<bots, file>>
                  ELSE
                    LET b == [bots EXCEPT
                                ![bot_id] = Attached(bots[bot_id], license_key, status)]
                    IN  /\ bots' = b
                        /\ Save(order, b, active_bot)
                        /\ last' = [ RegCall("set_license", bot_id,
                                       [raised |-> FALSE, ok |-> status.valid,
                                        status |-> status])
                                     EXCEPT !.key = license_key ]
    /\ UNCHANGED <<now, secret, gen, order, active_bot, cfg_token, disk, other>>

\* the verdict of _check_license on the stored key of the active tenant at
\* instant t
GateVerdict(t) ==
    ValidateKey(secret, t, bots[active_bot].license_key, ConfigToken, MachineHwid)

\* TelegramBot._check_license at instant t: "open" without an active bot,
\* "missing" without a key, else the verdict decides; a ValueError of
\* validate_key leaves it
CheckLicense(t) ==
    IF ~ActiveSet(active_bot) THEN [raised |-> FALSE, ok |-> TRUE, gate |-> "open"]
    ELSE IF ~InSeq(order, active_bot) \/ ~Truthy(bots[active_bot].license_key)
    THEN [raised |-> FALSE, ok |-> FALSE, gate |-> "missing"]
    ELSE IF GateVerdict(t).raised
    THEN [raised |-> TRUE, ok |-> FALSE, gate |-> "raised"]
    ELSE [raised |-> FALSE, ok |-> GateVerdict(t).valid, gate |-> "checked"]

\* bot.initialize(): the token, the license gate, then the application, whose
\* construction succeeds or not (built); every exception is caught and turned
\* into False
Initialize(built) ==
    /\ last = NoCall
    /\ LET gate == CheckLicense(now)
       IN  last' = RegCall("initialize", active_bot,
                     IF ConfigToken = NoToken \/ ConfigToken = ""
                     THEN [raised |-> FALSE, ok |-> FALSE, gate |-> "no token"]
                     ELSE [raised |-> FALSE, ok |-> (gate.ok /\ built),
                           gate |-> gate.gate])
    /\ key_file' = TRUE
    /\ UNCHANGED <<now, secret, gen, order, bots, active_bot, file, cfg_token, disk, other>>

\* the keys an operator attaches: issued on the first day for this machine under
\* the registry's secret, or typed by hand
IssuedKeys ==
    [sec \in Secrets |->
        [identity \in Identities |-> GenerateKey(sec, BaseDay, identity, 1, MachineHwid)]]

IssuedKey(identity) == IssuedKeys[secret][identity]

\* the bot token each tenant id is added with: none, or its own, encrypted under
\* config/.key
TenantTokens(bot_id) ==
    CASE bot_id = ""  -> {""}
      [] bot_id = "a" -> {Encrypt("tok49")}
      [] bot_id = "b" -> {"", Encrypt("wrongtoken")}

AttachKeys ==
    { IssuedKey("tok49"),
      <<"j","u","n","k">>,
      <<"T","P","M","B","-","1","1","1","1","-","2","2","2","2","-","3","3","3","3","-","4","4","4","4","-","5","5","5","5","-","6","6","6","6","-","7","7","7">> }

-----------------------------------------------------------------------------
(* Specifications *)

InitRegistry ==
    /\ order = <<>>
    /\ bots = <<>>
    /\ active_bot = NoBot
    /\ file = Registry(<<>>, <<>>, NoBot)

\* one LicenseManager, constructed when config/.key did or did not exist
Init ==
    /\ now \in [day : {BaseDay}, tick : 0..(TicksPerDay - 1)]
    /\ key_file \in BOOLEAN
    /\ secret = GetDefaultSecret(key_file)
    /\ gen = NoGen
    /\ last = NoCall
    /\ cfg_token = NoToken
    /\ disk = "ok"
    /\ other = NoInstance
    /\ InitRegistry

Next ==
    \/ Tick
    \/ \E identity \in Identities, days \in 1..MaxDaysValid, hwid \in HwIds :
          Generate(identity, days, hwid)
    \/ ValidateGenerated
    \/ ValidateTampered
    \/ ValidateTyped
    \/ Parse
    \/ Return

Spec == Init /\ [][Next]_vars

\* an empty registry, constructed when config/.key did or did not exist, with
\* a bot token configured or not (a token is stored encrypted under config/.key)
InitReg ==
    /\ now = [day |-> BaseDay, tick |-> 0]
    /\ key_file \in BOOLEAN
    /\ secret = GetDefaultSecret(key_file)
    /\ gen = NoGen
    /\ last = NoCall
    /\ cfg_token \in (IF key_file THEN {NoToken, "tok49", "abc123token"} ELSE {NoToken})
    /\ disk = "ok"
    /\ other = NoInstance
    /\ InitRegistry

NextReg ==
    \/ \E bot_id \in BotIds : \E tok \in (IF key_file THEN TenantTokens(bot_id) ELSE {""}) : AddBot(bot_id, "n", tok)
    \/ \E bot_id \in BotIds : RemoveBot(bot_id)
    \/ \E bot_id \in BotIds : SetActiveBot(bot_id)
    \/ \E bot_id \in BotIds, key \in AttachKeys : SetLicense(bot_id, key)
    \/ Return

SpecReg == InitReg /\ [][NextReg]_vars

\* the registry with its setters: add_bot, remove_bot, set_active_bot, update_bot
\* and set_bot_proxy_config
InitSet ==
    /\ now = [day |-> BaseDay, tick |-> 0]
    /\ key_file \in BOOLEAN
    /\ secret = GetDefaultSecret(key_file)
    /\ gen = NoGen
    /\ last = NoCall
    /\ cfg_token = NoToken
    /\ disk = "ok"
    /\ other = NoInstance
    /\ InitRegistry

NextSet ==
    \/ \E bot_id \in BotIds : AddBot(bot_id, "n", "")
    \/ \E bot_id \in BotIds : RemoveBot(bot_id)
    \/ \E bot_id \in BotIds : SetActiveBot(bot_id)
    \/ \E bot_id \in BotIds, field \in UpdateFields : UpdateBot(bot_id, field, "custom")
    \/ \E bot_id \in BotIds, password \in {<<>>, <<"p","w">>} :
            SetBotProxyConfig(bot_id, password)
    \/ Return

SpecSet == InitSet /\ [][NextSet]_vars

\* the registry on a file system whose writes can fail and in a process that can
\* be stopped and started again
NextDisk ==
    \/ \E bot_id \in BotIds : AddBot(bot_id, "n", "")
    \/ \E bot_id \in BotIds : RemoveBot(bot_id)
    \/ \E bot_id \in BotIds : SetActiveBot(bot_id)
    \/ \E d \in DiskStates : DiskTurns(d)
    \/ \E bot_id \in BotIds : AddBotStopped(bot_id)
    \/ Load
    \/ Return

SpecDisk == InitSet /\ [][NextDisk]_vars

\* the fields of a tenant record
BotFields == DOMAIN DefaultBot("n")

\* a record that a version knowing only the fields S has written
OldRecord(S) == [f \in S |-> DefaultBot("n")[f]]

\* BotRegistry() on a file with one record of an older schema and one of the
\* current schema
InitLoad ==
    /\ now = [day |-> BaseDay, tick |-> 0]
    /\ key_file \in BOOLEAN
    /\ secret = GetDefaultSecret(key_file)
    /\ gen = NoGen
    /\ last = Stopped
    /\ cfg_token = NoToken
    /\ disk = "ok"
    /\ other = NoInstance
    /\ order = <<>>
    /\ bots = <<>>
    /\ active_bot = NoBot
    /\ \E S \in SUBSET BotFields :
          file = Registry(<<"a", "b">>,
                          [i \in {"a", "b"} |->
                              IF i = "a" THEN OldRecord(S) ELSE DefaultBot("n")],
                          "a")

NextLoad == Load \/ Return

SpecLoad == InitLoad /\ [][NextLoad]_vars

\* LicenseManager instances constructed before and after Config() has created
\* config/.key
NextInst ==
    \/ ConfigInit
    \/ NewManager
    \/ \E identity \in Identities, hwid \in {None, GENERIC} : Generate(identity, 1, hwid)
    \/ ValidateGenerated
    \/ Return

SpecInst == Init /\ [][NextInst]_vars

\* the licensing state machine on validity periods that reach the year 2069 and
\* on keys with chosen expiry groups
NextExpiry ==
    \/ Tick
    \/ \E identity \in Identities, days \in FarDays, hwid \in {None, <<"a","b","1","2">>} :
          Generate(identity, days, hwid)
    \/ ValidateGenerated
    \/ ValidateSigned
    \/ Parse
    \/ Return

SpecExpiry == Init /\ [][NextExpiry]_vars

\* the registry with a bot token configured: add_bot, remove_bot,
\* set_active_bot, set_license and the setters
InitFrame ==
    /\ now = [day |-> BaseDay, tick |-> 0]
    /\ key_file = TRUE
    /\ secret = GetDefaultSecret(key_file)
    /\ gen = NoGen
    /\ last = NoCall
    /\ cfg_token = "tok49"
    /\ disk = "ok"
    /\ other = NoInstance
    /\ InitRegistry

NextFrame ==
    \/ \E bot_id \in BotIds : AddBot(bot_id, "n", "")
    \/ \E bot_id \in BotIds : RemoveBot(bot_id)
    \/ \E bot_id \in BotIds : SetActiveBot(bot_id)
    \/ \E bot_id \in BotIds, key \in {IssuedKey("tok49"), <<"j","u","n","k">>} :
            SetLicense(bot_id, key)
    \/ \E bot_id \in BotIds : UpdateBot(bot_id, "settings", "custom")
    \/ \E bot_id \in BotIds : SetBotProxyConfig(bot_id, <<"p","w">>)
    \/ Return

SpecFrame == InitFrame /\ [][NextFrame]_vars

\* the bot on its registry: the registry calls, the clock and initialize
InitGate ==
    /\ now = [day |-> BaseDay, tick |-> 0]
    /\ key_file = TRUE
    /\ secret = GetDefaultSecret(key_file)
    /\ gen = NoGen
    /\ last = NoCall
    /\ cfg_token \in {NoToken, "tok49"}
    /\ disk = "ok"
    /\ other = NoInstance
    /\ InitRegistry

NextGate ==
    \/ Tick
    \/ \E bot_id \in BotIds : AddBot(bot_id, "n", "")
    \/ \E bot_id \in BotIds : RemoveBot(bot_id)
    \/ \E bot_id \in BotIds : SetActiveBot(bot_id)
    \/ \E bot_id \in BotIds, key \in AttachKeys : SetLicense(bot_id, key)
    \/ \E built \in BOOLEAN : Initialize(built)
    \/ Return

SpecGate == InitGate /\ [][NextGate]_vars

\* two BotRegistry instances on the same config/bots.json
NextTwo ==
    \/ \E bot_id \in BotIds : AddBot(bot_id, "n", "")
    \/ \E bot_id \in BotIds : RemoveBot(bot_id)
    \/ \E bot_id \in BotIds : SetActiveBot(bot_id)
    \/ OtherOpen
    \/ \E bot_id \in BotIds : OtherAddBot(bot_id)
    \/ Return

SpecTwo == InitSet /\ [][NextTwo]_vars

-----------------------------------------------------------------------------
(* Properties *)

\* the last call validated the generated key, unchanged
ValidatedGenerated ==
    /\ last.op = "validate_key"
    /\ gen.made
    /\ last.tamper = 0

\* the UTC day encoded as the generated key's expiry
ExpiryDay == gen.day + gen.days_valid

Mismatch(r) == ~r.raised /\ r.valid = FALSE /\ r.reason = "checksum/token mismatch"

\* C1: a generated key validated with the same identity and hardware id, under
\* the same secret and before its expiry date, is valid with reason None,
\* whatever the identity
C1_RoundTrip ==
    ( /\ ValidatedGenerated
      /\ last.bot_token = gen.bot_token
      /\ last.hwid = gen.hwid
      /\ last.at.day < ExpiryDay )
    => ( /\ ~last.result.raised
         /\ last.result.valid = TRUE
         /\ last.result.reason = NoReason )

\* C2: validate_key on a key that parse_key rejects returns the verdict
\* valid = false, reason "malformed key", and does not raise
C2_MalformedVerdict ==
    (last.op = "validate_key" /\ ~ParseKey(last.key).ok)
    => ( /\ ~last.result.raised
         /\ last.result.valid = FALSE
         /\ last.result.reason = "malformed key" )

\* C3: a matching generated key is valid at every instant up to the end of its
\* expiry day, and rejected as expired at every instant after that day
C3_ExpiryBoundary ==
    ( /\ ValidatedGenerated
      /\ Matches(secret, ParseKey(last.key), last.bot_token, last.hwid) )
    => ( /\ ~last.result.raised
         /\ IF last.at.day <= ExpiryDay
            THEN last.result.valid = TRUE
            ELSE last.result.valid = FALSE /\ last.result.reason = "expired" )

\* the tampered key carries another expiry whose checksum is the original's
C4_Collision ==
    LET h   == StrUpper(Sha256Hex8(gen.bot_token))
        hw  == HwToken(gen.hwid)
        old == ParseKey(gen.key).expiry
        new == ParseKey(last.key).expiry
    IN  new # old /\ Checksum(secret, Payload(h, new, hw)) = Checksum(secret, Payload(h, old, hw))

\* C4: the generated key with one character of any data group changed is
\* rejected with reason "checksum/token mismatch" (checksum collisions excluded)
C4_TamperDetected ==
    (last.op = "validate_key" /\ last.tamper > 0 /\ ~C4_Collision)
    => Mismatch(last.result)

\* C5: a key generated for one identity and validated against another is
\* rejected with reason "checksum/token mismatch", whatever the hardware id and
\* the date
C5_IdentityBinding ==
    (ValidatedGenerated /\ last.bot_token # gen.bot_token)
    => Mismatch(last.result)

\* a key of one identity was validated against another identity, with the
\* hardware id it was generated for, before its expiry day, and was rejected
C5_Witness ==
    /\ ValidatedGenerated
    /\ last.bot_token # gen.bot_token
    /\ last.hwid = gen.hwid
    /\ last.at.day < ExpiryDay
    /\ Mismatch(last.result)

C6_Token(h) ==
    IF h = None \/ h = <<>> THEN GENERIC
    ELSE StrUpper(IF Len(h) > 8 THEN SubSeq(h, 1, 8) ELSE h)

\* the payloads of the two hardware tokens have the same checksum
C6_Collision ==
    LET h   == StrUpper(Sha256Hex8(gen.bot_token))
        exp == Strftime(ExpiryDay)
    IN  Checksum(secret, Payload(h, exp, C6_Token(gen.hwid)))
          = Checksum(secret, Payload(h, exp, C6_Token(last.hwid)))

C7_ActiveExists == active_bot = NoBot \/ InSeq(order, active_bot)

\* the active tenant was removed while another remained, and the pointer moved
\* to the first remaining tenant
C7_Witness ==
    /\ last.op = "remove_bot"
    /\ last.result.ok
    /\ last.before = last.bot_token
    /\ order # <<>>
    /\ active_bot = order[1]

\* the segments of a key after upper-casing and removal of blanks
KeySegments(key) == Split(NormalizeKey(key), "-")

\* 8 hyphen-delimited segments: the prefix TPMB, then 7 of 4 characters
WellFormed(key) ==
    LET parts == KeySegments(key)
    IN  /\ Len(parts) = 8
        /\ parts[1] = <<"T","P","M","B">>
        /\ \A i \in 2..8 : Len(parts[i]) = 4

\* C8: every generated key is TPMB followed by 7 hyphen-delimited groups of
\* exactly 4 characters, all upper case
C8_KeyShape ==
    gen.made =>
        LET parts == Split(gen.key, "-")
        IN  /\ Len(parts) = 8
            /\ parts[1] = <<"T","P","M","B">>
            /\ \A i \in 2..8 : Len(parts[i]) = 4
            /\ gen.key = StrUpper(gen.key)

\* C9: parse_key succeeds exactly on the well-formed keys
C9_DecodeWellFormedOnly ==
    last.op = "parse_key" => (last.result.ok <=> WellFormed(last.key))

\* C10: set_license returns a structured result for every key; it never raises
C10_AttachNeverRaises ==
    last.op = "set_license" => ~last.result.raised

\* the global token is there: Config().get_bot_token() is neither None nor ''
TokenConfigured == ConfigToken # NoToken /\ ConfigToken # ""

\* C11: set_license on a tenant id that does not exist, or with no bot token
\* configured, returns ok = False with a reason, and leaves the tenants, the
\* active pointer and the registry file as they were
C11_RefusedAttachChangesNothing ==
    [][ ( /\ last = NoCall
          /\ last'.op = "set_license"
          /\ ~InSeq(order, last'.bot_token) \/ ~TokenConfigured )
        => ( /\ ~last'.result.raised
             /\ ~last'.result.ok
             /\ last'.result.reason =
                  (IF ~InSeq(order, last'.bot_token) THEN "bot not found"
                   ELSE "no bot token configured")
             /\ UNCHANGED <<order, bots, active_bot, file>> ) ]_vars

\* set_license was refused on an existing tenant for want of a bot token
C11_Witness ==
    /\ last.op = "set_license"
    /\ InSeq(order, last.bot_token)
    /\ ~last.result.raised
    /\ ~last.result.ok
    /\ last.result.reason = "no bot token configured"
    /\ bots[last.bot_token].license_key = None

\* the verdict of the validator on the key of the set_license just made
AttachVerdict ==
    ValidateKey(secret, last.at, last.key, ConfigToken, MachineHwid)

C14_AttachUsesTenantIdentity ==
    ( /\ last.op = "set_license"
      /\ InSeq(order, last.bot_token)
      /\ TokenConfigured
      /\ ~AttachVerdict.raised
      /\ \E identity \in Identities :
            /\ last.key = IssuedKey(identity)
            /\ bots[last.bot_token].token_encrypted # ""
            /\ Decrypt(bots[last.bot_token].token_encrypted) # identity )
    => bots[last.bot_token].license_status = "invalid: checksum/token mismatch"

\* C18: add_bot with an id not yet present returns True and creates a record
\* with license_key None and license_status "inactive"; when no active tenant
\* was set, the new tenant is the active one
C18_AddCreatesInactive ==
    [][ ( /\ last = NoCall
          /\ last'.op = "add_bot"
          /\ ~InSeq(order, last'.bot_token) )
        => ( /\ last'.result.ok
             /\ InSeq(order', last'.bot_token)
             /\ bots'[last'.bot_token].license_key = None
             /\ bots'[last'.bot_token].license_status = "inactive"
             /\ (active_bot = NoBot => active_bot' = last'.bot_token) ) ]_vars

\* a tenant was added to a registry without an active tenant and is active
C18_Witness ==
    /\ last.op = "add_bot"
    /\ last.result.ok
    /\ last.before = NoBot
    /\ active_bot = last.bot_token
    /\ bots[last.bot_token].license_status = "inactive"

\* C19: remove_bot of an existing tenant deletes its record; if it was the
\* active one, the active pointer is the first remaining tenant in insertion
\* order, or None when none remains
C19_RemovePromotesFirst ==
    [][ ( /\ last = NoCall
          /\ last'.op = "remove_bot"
          /\ InSeq(order, last'.bot_token) )
        => ( /\ last'.result.ok
             /\ ~InSeq(order', last'.bot_token)
             /\ last'.bot_token \notin DOMAIN bots'
             /\ order' = Without(order, last'.bot_token)
             /\ (active_bot = last'.bot_token =>
                    active_bot' = (IF order' # <<>> THEN order'[1] ELSE NoBot))
             /\ (active_bot # last'.bot_token => active_bot' = active_bot) ) ]_vars

\* the active tenant was removed while two others remained, and the first of
\* them is the active one
C19_Witness ==
    /\ last.op = "remove_bot"
    /\ last.result.ok
    /\ last.before = last.bot_token
    /\ Len(order) = 2
    /\ active_bot = order[1]

\* the mutators that take a tenant id and answer a boolean
Mutators == {"add_bot", "remove_bot", "set_active_bot", "update_bot",
             "set_bot_proxy_config"}

\* C12: add_bot with an id that exists, and remove_bot, set_active_bot,
\* update_bot and set_bot_proxy_config with an id that does not, return False
\* without raising and leave the tenants, the active pointer and the registry
\* file as they were
C12_FailedMutatorsChangeNothing ==
    [][ ( /\ last = NoCall
          /\ last'.op \in Mutators
          /\ (last'.op = "add_bot") <=> InSeq(order, last'.bot_token) )
        => ( /\ ~last'.result.raised
             /\ ~last'.result.ok
             /\ UNCHANGED <<order, bots, active_bot, file>> ) ]_vars

\* add_bot was refused on an id whose record had been changed by a setter, and
\* the record is still the changed one
C12_Witness ==
    /\ last.op = "add_bot"
    /\ ~last.result.ok
    /\ InSeq(order, last.bot_token)
    /\ bots[last.bot_token].proxy_config = "custom+password"
    /\ file = Registry(order, bots, active_bot)

\* the mutators that report success and have written the registry
Saving == Mutators \cup {"set_license"}

\* C15: after every mutator that returned success the registry file holds the
\* registry in memory, also when the write of the file failed
C15_WriteThrough ==
    (last.op \in Saving /\ ~last.result.raised /\ last.result.ok)
        => file = Registry(order, bots, active_bot)

\* C16: the registry file is always a complete registry, also when the process
\* stopped inside a save, and a load never falls back to the default registry
C16_SaveAtomic ==
    /\ file # Partial
    /\ last.op = "load" => last.result.ok

\* C17: after a load every record has every field of the default record, the
\* stored fields with their stored values and the missing ones with their
\* defaults, and no record is dropped
C17_MigrationBackfillsAll ==
    last.op = "load" =>
        /\ last.result.ok
        /\ DOMAIN bots = DOMAIN last.result.from.bots
        /\ \A i \in DOMAIN bots :
              /\ DOMAIN bots[i] = BotFields
              /\ \A f \in BotFields :
                    bots[i][f] = (IF f \in DOMAIN last.result.from.bots[i]
                                  THEN last.result.from.bots[i][f]
                                  ELSE DefaultBot("")[f])

\* C20: every LicenseManager of the installation holds the same secret, whether
\* it was constructed before or after config/.key was created: the instance in
\* use holds the secret of the instance that generated the key
C20_SecretDeterministic == gen.made => gen.secret = secret

\* s is the 6-digit rendering YYMMDD of a calendar date of the years 2000..2099
IsCalendarDate(s) ==
    /\ Len(s) = 6
    /\ \A i \in 1..6 : IsDigit(s[i])
    /\ NumVal(SubSeq(s, 3, 4)) \in 1..12
    /\ NumVal(SubSeq(s, 5, 6)) >= 1
    /\ NumVal(SubSeq(s, 5, 6)) <=
          DaysInMonth(2000 + NumVal(SubSeq(s, 1, 2)), NumVal(SubSeq(s, 3, 4)))

\* the UTC day YYMMDD denotes with the year taken as 2000 + YY
DayOf2000(s) ==
    DaysFromCivil(2000 + NumVal(SubSeq(s, 1, 2)), NumVal(SubSeq(s, 3, 4)),
                  NumVal(SubSeq(s, 5, 6)))

\* the key of the validate_key just made decodes and its checksum and identity
\* hash match
ValidatedMatching ==
    /\ last.op = "validate_key"
    /\ ~last.result.raised
    /\ Matches(secret, ParseKey(last.key), last.bot_token, last.hwid)

\* C21: the expiry YYMMDD is a date of the year 2000 + YY for every YY: a
\* matching key is not reported expired before that date, years 69..99
\* included
C21_ExpiryCentury ==
    ( /\ ValidatedMatching
      /\ IsCalendarDate(last.result.expires)
      /\ last.at.day < DayOf2000(last.result.expires) )
    => last.result.reason # "expired"

\* C22: parse_key of a generated key yields the 6 digits YYMMDD of the
\* generation day plus days_valid, validate_key returns them as expires, and
\* 30 days from 2025-01-01 give 250131
C22_ExpiryRoundTrip ==
    gen.made =>
        LET expected == Strftime(gen.day + gen.days_valid)
        IN  /\ (last.op = "parse_key" /\ last.key = gen.key)
                  => (last.result.ok /\ last.result.expiry = expected)
            /\ ValidatedGenerated
                  => (~last.result.raised /\ last.result.expires = expected)
            /\ (gen.day = BaseDay /\ gen.days_valid = 30)
                  => expected = <<"2","5","0","1","3","1">>

\* the key generated on 2025-01-01 for 30 days was decoded to 250131
C22_Witness ==
    /\ gen.made
    /\ gen.day = BaseDay
    /\ gen.days_valid = 30
    /\ last.op = "parse_key"
    /\ last.key = gen.key
    /\ last.result.expiry = <<"2","5","0","1","3","1">>

\* C23: a key that decodes and does not match gets "checksum/token mismatch"
\* whatever its expiry; "expired" and "invalid expiry" are given to matching
\* keys only; a matching key whose expiry is not a calendar date gets
\* "invalid expiry"
C23_MismatchFirst ==
    (last.op = "validate_key" /\ ~last.result.raised) =>
        LET data    == ParseKey(last.key)
            matches == Matches(secret, data, last.bot_token, last.hwid)
        IN  /\ ~matches => last.result.reason = "checksum/token mismatch"
            /\ last.result.reason \in {"expired", "invalid expiry"} => matches
            /\ (matches /\ ~IsCalendarDate(data.expiry))
                  => last.result.reason = "invalid expiry"

\* the status strings set_license writes
AttachedStatuses ==
    {"active", "invalid: checksum/token mismatch", "invalid: expired",
     "invalid: invalid expiry"}

C27_ActiveWhenNonEmpty == active_bot = NoBot => (order = <<>> /\ DOMAIN bots = {})

\* the active tenant was removed and the tenant with the empty id, which
\* remained, is the active one
C27_Witness ==
    /\ last.op = "remove_bot"
    /\ last.result.ok
    /\ last.before = last.bot_token
    /\ order # <<>>
    /\ active_bot = ""

\* C28: a successful add_bot into a registry that has an active tenant, a
\* successful remove_bot of a tenant that is not the active one, and
\* set_license leave the active pointer unchanged, for every id, the empty
\* string included
C28_ActiveFrame ==
    /\ (last.op = "add_bot" /\ last.result.ok /\ last.before # NoBot)
          => active_bot = last.before
    /\ (last.op = "remove_bot" /\ last.result.ok /\ last.before # last.bot_token)
          => active_bot = last.before
    /\ last.op = "set_license" => active_bot = last.before

\* the calls that write one tenant's record and nothing else
RecordWriters == {"set_license", "update_bot", "set_bot_proxy_config"}

\* C29: set_license, update_bot and set_bot_proxy_config on one id leave the
\* active pointer and the record of every other tenant unchanged; add_bot,
\* remove_bot and set_active_bot leave license_key and license_status of every
\* tenant other than the one added or removed unchanged
C29_OtherTenantsUntouched ==
    [][ (last = NoCall /\ last'.op \in RecordWriters \cup Mutators) =>
          /\ last'.op \in RecordWriters =>
                /\ active_bot' = active_bot
                /\ DOMAIN bots' = DOMAIN bots
                /\ \A i \in DOMAIN bots \ {last'.bot_token} : bots'[i] = bots[i]
          /\ \A i \in (DOMAIN bots \cap DOMAIN bots') \ {last'.bot_token} :
                /\ bots'[i].license_key = bots[i].license_key
                /\ bots'[i].license_status = bots[i].license_status ]_vars

\* a key was attached to one tenant while another tenant, whose settings had
\* been changed, holds no key
C29_Witness ==
    /\ last.op = "set_license"
    /\ ~last.result.raised
    /\ last.result.ok
    /\ \E i \in DOMAIN bots \ {last.bot_token} :
          /\ bots[i].settings = "custom"
          /\ bots[i].license_key = None

\* initialize has validated the stored key of the active tenant
Checked == last.op = "initialize" /\ last.result.gate = "checked"

C30_StartupGate ==
    (last.op = "initialize" /\ last.result.ok) =>
        \/ active_bot = NoBot
        \/ /\ InSeq(order, active_bot)
           /\ Truthy(bots[active_bot].license_key)
           /\ ~GateVerdict(last.at).raised
           /\ GateVerdict(last.at).valid

\* the calls through the first instance that save the registry
OwnWrites == {"add_bot", "remove_bot", "set_active_bot"}

\* C25: with two instances on one file every successful mutation rewrites the
\* whole file from the copy of the instance it went through, whatever the
\* other instance has written; so a tenant added through one instance is
\* lost from the file by the next mutation through the other
C25_WholeFileFromOwnCopy ==
    /\ (last.op \in OwnWrites /\ last.result.ok)
          => file = Registry(order, bots, active_bot)
    /\ (last.op = "other.add_bot" /\ last.result.ok) => file = other

\* the lost update: a tenant added through the first instance, and still in its
\* copy, is absent from the file after a successful add_bot through the second
C25_Witness ==
    /\ last.op = "other.add_bot"
    /\ last.result.ok
    /\ \E id \in DOMAIN bots : id \notin DOMAIN file.bots /\ ~InSeq(file.order, id)

=============================================================================
